---- MODULE Spec2Model ----
(***************************************************************************)
(* Presentation manager / kiosk player: the hosted store with its          *)
(* row-level access policies, the player's playback loop, the manager's    *)
(* item mutations (add, delete, drag-to-reorder with optimistic update)    *)
(* and the image upload handler.                                           *)
(***************************************************************************)
EXTENDS Integers, Sequences, FiniteSets, TLC

\* ------------------------------------------------------------------ bounds
\* items of one presentation in the player and the manager
MaxItems == 3
\* reorder mutations in flight at once in one form
MaxInFlight == 2
\* add, delete and drag gestures the user makes in one form
MaxOps == 2
\* rows of presentation_items in the access-policy specification
MaxRows == 2

\* ------------------------------------------------------------ value domains
NULL == "NULL"
\* url: '' of a new item
NoUrl == <<>>
Users == {"u1", "u2"}
\* auth.uid(): a signed-in user's id, or NULL for the anonymous role
Uids == Users \cup {NULL}
PresIds == {"p1", "p2"}
ItemIds == 1..MaxItems
Types == {"image", "powerbi", "PowerBI"}

VARIABLES
  presentations,  \* table public.presentations: id -> row
  items,          \* table public.presentation_items: id -> row
  resp            \* the store's answer to the last request

storeVars == <<presentations, items, resp>>

VARIABLES
  version,        \* which definition of PresentationView in the file is mounted
  playerItems,    \* data of the ['presentation-items', id] query in the player
  currentIndex,   \* useState(0)
  timer,          \* the pending setTimeout of the auto-advance effect
  playerEvent,    \* the last thing that happened in the player
  startIndex,     \* observer: index at which counting of advances started
  advances,       \* observer: advances counted since then
  query,          \* state of the items query: "loading", "success" or "error"
  screen,         \* what the last render returned
  life,           \* "mounted", "unmounted" (torn down) or "crashed" (render threw)
  pendingTimers,  \* the timeouts the browser holds for the player
  presentation,   \* data of the ['presentation', id] query in the player
  slideTimeRemaining,   \* useState(0)
  refreshTimeRemaining, \* useState(0)
  slideCountdown,       \* the setInterval of the slide countdown effect
  refreshCountdown      \* the setInterval of the refresh countdown effect

countdownVars == <<presentation, slideTimeRemaining, refreshTimeRemaining,
                   slideCountdown, refreshCountdown>>

playerVars == <<version, playerItems, currentIndex, timer, playerEvent,
                startIndex, advances, query, screen, life, pendingTimers,
                countdownVars>>

VARIABLES
  mgrUid,         \* auth.uid() of the session the manager runs in
  cache,          \* data of the ['presentation-items', id] query in the form
  localItems,     \* useState<PresentationItem[]>([]), ids in display order
  refetchPending, \* the items query is invalidated and being refetched
  mutations,      \* reorder mutations in flight, oldest first
  toast,          \* the last toast shown
  mgrEvent,       \* the last thing that happened in the form
  persisted,      \* observer: the order last known to be persisted
  ops             \* observer: add, delete and drag gestures made so far

mgrVars == <<mgrUid, cache, localItems, refetchPending, mutations, toast,
             mgrEvent, persisted, ops>>

VARIABLES
  uploadStates,   \* useState<Record<string, {isCompressing, isUploading, ...}>>({})
  storage,        \* objects in the presentation-images bucket
  calls,          \* compressions, storage uploads and item updates issued so far
  uploadEvent     \* the last thing handleImageUpload did

uploadVars == <<uploadStates, storage, calls, uploadEvent>>

VARIABLES
  session,        \* useState<Session | null>(null) of PresentationManager: its user id
  pending,        \* PresentationManager mutations in flight, oldest first
  listEvent,      \* the last thing that happened in PresentationManager
  isAuthOpen      \* useState(false): the auth dialog is open

listVars == <<session, pending, listEvent, isAuthOpen>>

VARIABLES
  tabs            \* the edit form of one presentation open in two sessions

tabVars == <<tabs>>

VARIABLES
  authSession,    \* the session the auth client holds (user id, or none)
  getSessionCall, \* supabase.auth.getSession() of the session effect
  authEvents,     \* onAuthStateChange events not yet handed to the callback
  authChanges     \* sign-ins and sign-outs so far

authVars == <<authSession, getSessionCall, authEvents, authChanges>>

vars == <<storeVars, playerVars, mgrVars, uploadVars, listVars, tabVars, authVars>>

\* what each part of the system leaves alone
exceptStore == <<playerVars, mgrVars, uploadVars, listVars, tabVars, authVars>>

exceptPlayer == <<storeVars, mgrVars, uploadVars, listVars, tabVars, authVars>>

exceptManager == <<playerVars, uploadVars, listVars, tabVars, authVars>>

exceptUpload == <<playerVars, listVars, tabVars, authVars>>

exceptList == <<playerVars, uploadVars, mgrUid, cache, localItems, refetchPending,
                mutations, mgrEvent, persisted, tabVars, authVars>>

exceptTabs == <<playerVars, mgrVars, uploadVars, listVars, authVars>>

exceptAuth == <<storeVars, playerVars, mgrVars, uploadVars, pending, listEvent, isAuthOpen,
                tabVars>>

\* ------------------------------------------- a part that is not running
NoTimer == [armed |-> FALSE, delay |-> 0, len |-> 0, id |-> 0, elapsed |-> 0]

\* const { data: presentation } = useQuery(...) with no data yet
NoPresentation == [defined |-> FALSE, refresh_interval |-> 0]

\* an interval that is not running; elapsed is Date.now() - startTime
NoCountdown == [active |-> FALSE, elapsed |-> 0, sinceTick |-> 0, duration |-> 0]

PlayerIdle ==
  /\ version = 1
  /\ playerItems = <<>>
  /\ currentIndex = 0
  /\ timer = NoTimer
  /\ playerEvent = [kind |-> "mount", from |-> 0]
  /\ startIndex = 0
  /\ advances = 0
  /\ query = "loading"
  /\ screen = "loading"
  /\ life = "mounted"
  /\ pendingTimers = {}
  /\ presentation = NoPresentation
  /\ slideTimeRemaining = 0
  /\ refreshTimeRemaining = 0
  /\ slideCountdown = NoCountdown
  /\ refreshCountdown = NoCountdown

NoData == [defined |-> FALSE, data |-> <<>>]

ManagerIdle ==
  /\ mgrUid = "u1"
  /\ cache = NoData
  /\ localItems = <<>>
  /\ refetchPending = FALSE
  /\ mutations = <<>>
  /\ toast = "none"
  /\ mgrEvent = [kind |-> "mount", seq |-> <<>>]
  /\ persisted = <<>>
  /\ ops = 0

NoFile == [type |-> "", size |-> 0]

NoRequest == [kind |-> "none", id |-> "", input |-> <<>>, title |-> <<>>]

ListIdle ==
  /\ session = NULL
  /\ pending = <<>>
  /\ listEvent = NoRequest
  /\ isAuthOpen = FALSE

Tabs == {1, 2}

NoTab == [cache |-> NoData, localItems |-> <<>>, refetchPending |-> FALSE,
          mutations |-> <<>>, toast |-> "none", event |-> "mount",
          submitted |-> <<>>, reorders |-> 0]

TabsIdle == tabs = [t \in Tabs |-> NoTab]

NoCall == [state |-> "none", value |-> NULL]

\* no session effect is running
AuthIdle ==
  /\ authSession = NULL
  /\ getSessionCall = NoCall
  /\ authEvents = <<>>
  /\ authChanges = 0

UploadIdle ==
  /\ uploadStates = [i \in {} |-> 0]
  /\ storage = {}
  /\ calls = [compress |-> 0, upload |-> 0, update |-> 0]
  /\ uploadEvent = [kind |-> "none", item |-> 0, file |-> NoFile]

\* ----------------------------------------------------------- SQL helpers
\* a = b of SQL used as a policy condition: NULL on either side is not true
SqlEq(a, b) == a # NULL /\ b # NULL /\ a = b

\* lower(text)
Lower(t) == IF t = "PowerBI" THEN "powerbi" ELSE t

\* policies declared TO authenticated apply only to signed-in sessions
Authenticated(uid) == uid # NULL

\* ------------------------------------------- policies on public.presentations
PresSelectPolicy(uid, p) ==
  \/ p.is_public = TRUE
  \/ (Authenticated(uid) /\ SqlEq(uid, p.user_id))

PresUpdatePolicy(uid, p) == Authenticated(uid) /\ SqlEq(uid, p.user_id)

PresDeletePolicy(uid, p) == Authenticated(uid) /\ SqlEq(uid, p.user_id)

\* the rows of presentations a sub-select run by uid sees, restricted to table pt
VisiblePres(uid, pt) == {pid \in DOMAIN pt : PresSelectPolicy(uid, pt[pid])}

\* --------------------------------------- policies on public.presentation_items
\* "Public presentation items are viewable" (dropped by the later migration)
ItemSelectPolicyV1(uid, it, pt) ==
  \E pid \in VisiblePres(uid, pt) :
    /\ pid = it.presentation_id
    /\ (pt[pid].is_public = TRUE \/ SqlEq(pt[pid].user_id, uid))

\* "Public items viewable (non-PowerBI) or owner"
ItemSelectPolicy(uid, it, pt) ==
  \E pid \in VisiblePres(uid, pt) :
    /\ pid = it.presentation_id
    /\ \/ SqlEq(pt[pid].user_id, uid)
       \/ (pt[pid].is_public = TRUE /\ Lower(it.type) # "powerbi")

OwnsParentIfVisible(uid, it, pt) ==
  \E pid \in VisiblePres(uid, pt) : pid = it.presentation_id

\* the EXISTS (... p.user_id = auth.uid()) of the three owner policies
OwnsParent(uid, it, pt) ==
  \E pid \in VisiblePres(uid, pt) :
    pid = it.presentation_id /\ SqlEq(pt[pid].user_id, uid)

ItemInsertPolicy(uid, it, pt) == Authenticated(uid) /\ OwnsParent(uid, it, pt)

ItemUpdatePolicy(uid, it, pt) == Authenticated(uid) /\ OwnsParent(uid, it, pt)

ItemDeletePolicy(uid, it, pt) == Authenticated(uid) /\ OwnsParent(uid, it, pt)

\* ------------------------------------------------------- store operations
Drop(f, ks) == [k \in (DOMAIN f) \ ks |-> f[k]]

Put(f, k, v) == [x \in (DOMAIN f) \cup {k} |-> IF x = k THEN v ELSE f[x]]

\* select * from presentation_items where presentation_id = pid, as uid
SelectItems(uid, pid, it, pt) ==
  {i \in DOMAIN it : it[i].presentation_id = pid /\ ItemSelectPolicy(uid, it[i], pt)}

Resp(op, uid, press, err, n, rows) ==
  [op |-> op, uid |-> uid, press |-> press, error |-> err, count |-> n, rows |-> rows]

NoResp == Resp("none", NULL, {}, FALSE, 0, {})

\* the store while only the player runs: its rows are outside the player's state
StoreIdle ==
  /\ presentations = [pid \in {"p1"} |-> [user_id |-> "u1", is_public |-> TRUE, title |-> <<"a">>]]
  /\ items = [i \in {} |-> 0]
  /\ resp = NoResp

NoCascade(it, pid) == it

\* items of a deleted presentation go with it
OnDeleteCascade(it, pid) == Drop(it, {i \in DOMAIN it : it[i].presentation_id = pid})

\* the row with the columns named in patch overwritten
Patch(row, patch) ==
  [f \in DOMAIN row |-> IF f \in DOMAIN patch THEN patch[f] ELSE row[f]]

\* update presentations set (patch) where id = pid
DbPatchPresentation(uid, pid, patch) ==
  LET hit == pid \in DOMAIN presentations
               /\ PresSelectPolicy(uid, presentations[pid])
               /\ PresUpdatePolicy(uid, presentations[pid])
      new == Patch(presentations[pid], patch)
  IN  /\ IF hit /\ PresUpdatePolicy(uid, new)
           THEN /\ presentations' = [presentations EXCEPT ![pid] = new]
                /\ resp' = Resp("update_presentation", uid, {pid}, FALSE, 1, {})
           ELSE /\ presentations' = presentations
                /\ resp' = Resp("update_presentation", uid, {pid}, hit, 0, {})
      /\ items' = items

\* update presentations set is_public = pub where id = pid
DbUpdatePresentation(uid, pid, pub) ==
  /\ pid \in DOMAIN presentations
  /\ DbPatchPresentation(uid, pid, [is_public |-> pub])

\* delete from presentations where id = pid
DbDeletePresentation(uid, pid) ==
  LET hit == pid \in DOMAIN presentations
               /\ PresSelectPolicy(uid, presentations[pid])
               /\ PresDeletePolicy(uid, presentations[pid])
  IN  /\ pid \in DOMAIN presentations
      /\ IF hit
           THEN /\ presentations' = Drop(presentations, {pid})
                /\ items' = OnDeleteCascade(items, pid)
                /\ resp' = Resp("delete_presentation", uid, {pid}, FALSE, 1,
                                (DOMAIN items) \ DOMAIN OnDeleteCascade(items, pid))
           ELSE /\ UNCHANGED <<presentations, items>>
                /\ resp' = Resp("delete_presentation", uid, {pid}, FALSE, 0, {})

\* insert into presentation_items values (row)
DbInsertItem(uid, id, row) ==
  /\ id \notin DOMAIN items
  /\ IF ItemInsertPolicy(uid, row, presentations)
       THEN /\ items' = Put(items, id, row)
            /\ resp' = Resp("insert_item", uid, {row.presentation_id}, FALSE, 1, {})
       ELSE /\ items' = items
            /\ resp' = Resp("insert_item", uid, {row.presentation_id}, TRUE, 0, {})
  /\ presentations' = presentations

\* update presentation_items set (patch) where id = id
DbUpdateItem(uid, id, patch) ==
  LET hit == id \in DOMAIN items
               /\ ItemSelectPolicy(uid, items[id], presentations)
               /\ ItemUpdatePolicy(uid, items[id], presentations)
      press == (IF id \in DOMAIN items THEN {items[id].presentation_id} ELSE {})
                 \cup (IF "presentation_id" \in DOMAIN patch
                         THEN {patch.presentation_id} ELSE {})
  IN  /\ IF hit /\ ItemUpdatePolicy(uid, Patch(items[id], patch), presentations)
           THEN /\ items' = [items EXCEPT ![id] = Patch(items[id], patch)]
                /\ resp' = Resp("update_item", uid, press, FALSE, 1, {})
           ELSE /\ items' = items
                /\ resp' = Resp("update_item", uid, press, hit, 0, {})
      /\ presentations' = presentations

\* delete from presentation_items where id = id
DbDeleteItem(uid, id) ==
  LET hit == id \in DOMAIN items
               /\ ItemSelectPolicy(uid, items[id], presentations)
               /\ ItemDeletePolicy(uid, items[id], presentations)
  IN  /\ id \in DOMAIN items
      /\ IF hit
           THEN /\ items' = Drop(items, {id})
                /\ resp' = Resp("delete_item", uid, {items[id].presentation_id}, FALSE, 1, {})
           ELSE /\ items' = items
                /\ resp' = Resp("delete_item", uid, {items[id].presentation_id}, FALSE, 0, {})
      /\ presentations' = presentations

\* select * from presentation_items where presentation_id = pid
DbSelectItems(uid, pid) ==
  /\ resp' = Resp("select_items", uid, {pid}, FALSE, 0,
                  SelectItems(uid, pid, items, presentations))
  /\ UNCHANGED <<presentations, items>>

\* ------------------------------------------------- access-policy specification
\* any session may send any request straight to the store
RowIds == 1..MaxRows

InitRows ==
  [i \in {1} |-> [presentation_id |-> "p1", type |-> "image", url |-> NoUrl,
                  display_time |-> 1, order_index |-> 0]]

StoreInit ==
  /\ \E legacy \in {NULL, "u2"} :
       presentations = [pid \in PresIds |->
                          IF pid = "p1" THEN [user_id |-> "u1", is_public |-> TRUE, title |-> <<"a">>]
                                        ELSE [user_id |-> legacy, is_public |-> FALSE, title |-> <<"a">>]]
  /\ items = InitRows
  /\ resp = NoResp
  /\ PlayerIdle
  /\ TabsIdle
  /\ ManagerIdle
  /\ UploadIdle
  /\ ListIdle
  /\ AuthIdle

StoreUpdatePresentation ==
  /\   \E uid \in Uids, pid \in PresIds, pub \in BOOLEAN : DbUpdatePresentation(uid, pid, pub)
  /\ UNCHANGED exceptStore

StoreDeletePresentation ==
  /\   \E uid \in Uids, pid \in PresIds : DbDeletePresentation(uid, pid)
  /\ UNCHANGED exceptStore

StoreInsertItem ==
  /\ \E uid \in Uids, id \in RowIds, pid \in PresIds, t \in Types :
    DbInsertItem(uid, id, [presentation_id |-> pid, type |-> t, url |-> NoUrl,
                           display_time |-> 1, order_index |-> 0])
  /\ UNCHANGED exceptStore

StoreUpdateItem ==
  /\ \E uid \in Uids, id \in RowIds :
       \/ \E pid \in PresIds :
            DbUpdateItem(uid, id, [presentation_id |-> pid])
       \/ \E t \in Types :
            DbUpdateItem(uid, id, [type |-> t])
  /\ UNCHANGED exceptStore

StoreDeleteItem ==
  /\   \E uid \in Uids, id \in RowIds : DbDeleteItem(uid, id)
  /\ UNCHANGED exceptStore

StoreSelectItems ==
  /\   \E uid \in Uids, pid \in PresIds : DbSelectItems(uid, pid)
  /\ UNCHANGED exceptStore

StoreNext ==
  \/ StoreUpdatePresentation
  \/ StoreDeletePresentation
  \/ StoreInsertItem
  \/ StoreUpdateItem
  \/ StoreDeleteItem
  \/ StoreSelectItems

StoreSpec == StoreInit /\ [][StoreNext]_vars

\* ------------------------------------------------------------ claims: store
IsOwner(uid, pid, pt) == pid \in DOMAIN pt /\ uid # NULL /\ pt[pid].user_id = uid

MutatingOps == {"update_presentation", "delete_presentation",
                "insert_item", "update_item", "delete_item"}

NonOwnerMutation(r, pt) ==
  r.op \in MutatingOps /\ \E pid \in r.press : ~IsOwner(r.uid, pid, pt)

\* C5: a mutation of a presentation, or of an item of a presentation, requested
\* by a session that does not own that presentation touches no stored row.
C5_NonOwnerRejected ==
  [][NonOwnerMutation(resp', presentations)
       => (presentations' = presentations /\ items' = items /\ resp'.count = 0)]_vars

C5_Witness ==
  /\ resp.op = "update_item" /\ resp.uid = "u2" /\ resp.press = {"p1"}
  /\ resp.count = 0
  /\ "p1" \in DOMAIN presentations /\ presentations["p1"].user_id = "u1"
  /\ \E i \in DOMAIN items : items[i].presentation_id = "p1"

\* C6: an anonymous read returns only non-dashboard items of public
\* presentations; the owner's read returns every item of the presentation.
C6_AnonymousReadFiltered ==
  [][resp'.op = "select_items" =>
       \A pid \in resp'.press :
         /\ resp'.uid = NULL =>
              \A i \in resp'.rows :
                /\ pid \in DOMAIN presentations
                /\ presentations[pid].is_public = TRUE
                /\ items[i].presentation_id = pid
                /\ Lower(items[i].type) # "powerbi"
         /\ IsOwner(resp'.uid, pid, presentations) =>
              resp'.rows = {i \in DOMAIN items : items[i].presentation_id = pid}]_vars

C6_Witness ==
  /\ resp.op = "select_items" /\ resp.uid = NULL /\ resp.rows # {}
  /\ \E i \in DOMAIN items :
       /\ items[i].presentation_id \in resp.press
       /\ Lower(items[i].type) = "powerbi"
       /\ i \notin resp.rows

\* ===================================================================== player
MsPerMinute == 60000

DisplayTimes == {-1, 0, 1}

OrderIndexes == 0..(MaxItems - 1)

\* url values: text that new URL() rejects, and an absolute URL
BadUrl == <<"host", "a.png">>

GoodUrl == <<"https:", "host", "a.png">>

\* isValidUrl: new URL(url) does not throw
IsValidUrl(url) == url # <<>> /\ Head(url) = "https:"

PlayerRow == [order_index : OrderIndexes, display_time : DisplayTimes,
              type : {"image"}, url : {GoodUrl}]

\* the row sets a fetch can find in the store (one row per order_index here)
PlayerRowSets ==
  {rs \in SUBSET PlayerRow :
     \A r1, r2 \in rs : r1.order_index = r2.order_index => r1 = r2}

\* .order('order_index')
RECURSIVE SortByOrderIndex(_)
SortByOrderIndex(rs) ==
  IF rs = {} THEN <<>>
  ELSE LET first == CHOOSE r \in rs : \A q \in rs : r.order_index <= q.order_index
       IN  <<first>> \o SortByOrderIndex(rs \ {first})

\* items[currentIndex] of JavaScript: undefined outside the array
HasItemAt(list, idx) == idx >= 0 /\ idx < Len(list)

ItemAt(list, idx) == list[idx + 1]

\* auto-advance effect, first definition: guards display_time <= 0
ArmTimerV1(list, idx) ==
  IF Len(list) = 0 THEN NoTimer
  ELSE IF ~HasItemAt(list, idx) \/ ItemAt(list, idx).display_time <= 0 THEN NoTimer
  ELSE [armed |-> TRUE, delay |-> ItemAt(list, idx).display_time * MsPerMinute,
        len |-> Len(list), id |-> 0, elapsed |-> 0]

\* auto-advance effect, second definition in the file: no guard on display_time
ArmTimerV2(list, idx) ==
  IF Len(list) = 0 THEN NoTimer
  ELSE IF ~HasItemAt(list, idx) THEN NoTimer
  ELSE [armed |-> TRUE, delay |-> ItemAt(list, idx).display_time * MsPerMinute,
        len |-> Len(list), id |-> 0, elapsed |-> 0]

ArmTimer(ver, list, idx) ==
  IF ver = 1 THEN ArmTimerV1(list, idx) ELSE ArmTimerV2(list, idx)

\* the handle setTimeout returns differs from the handles of the pending
\* timeouts and from the handle returned last
FreshId(pend, last) ==
  LET used == {t.id : t \in pend} \cup {last}
  IN  CHOOSE n \in 0..Cardinality(used) :
        n \notin used /\ \A k \in 0..(n - 1) : k \in used

SetTimeout(t, pend, last) ==
  IF t.armed THEN [t EXCEPT !.id = FreshId(pend, last)] ELSE t

Pending(t) == IF t.armed THEN {t} ELSE {}

ClearTimeoutNothing(pend, t) == pend

\* the effect's cleanup: clearTimeout(timer)
ClearTimeout(pend, t) == pend \ Pending(t)

AdvanceIndexOffByOne(prev, n) == (prev + 1) % (n + 1)

AdvanceIndexNoWrap(prev, n) == IF prev + 1 < n THEN prev + 1 ELSE prev

\* setCurrentIndex((prev) => (prev + 1) % items.length)
AdvanceIndex(prev, n) == (prev + 1) % n

ResetIndexKeep(idx) == idx

\* reset effect: setCurrentIndex(0)
ResetIndex(idx) == 0

\* the media area of the first definition
MediaV1(item) ==
  IF item.type = "image" /\ item.url # NoUrl
    THEN IF IsValidUrl(item.url) THEN "image" ELSE "invalid_url"
  ELSE IF item.type = "powerbi" /\ item.url # NoUrl
    THEN IF IsValidUrl(item.url) THEN "iframe" ELSE "invalid_url"
  ELSE "blank"

\* the media area of the second definition in the file
MediaV2(item) ==
  IF item.type = "image" /\ item.url # NoUrl THEN "image"
  ELSE IF item.type = "powerbi" /\ item.url # NoUrl THEN "iframe"
  ELSE "blank"

\* what the component returns: q is the state of the items query
Render(ver, q, list, idx) ==
  IF q = "loading" THEN "loading"
  ELSE IF q = "error" \/ Len(list) = 0 THEN "placeholder"
  ELSE IF ~HasItemAt(list, idx) THEN (IF ver = 1 THEN "loading_item" ELSE "blank")
  ELSE IF ver = 1 THEN MediaV1(ItemAt(list, idx)) ELSE MediaV2(ItemAt(list, idx))

\* the hooks the first definition calls before its loading and placeholder returns
HooksBeforeReturnsV1 ==
  <<"useParams", "useState", "useState", "useState", "useQuery", "useQuery",
    "useEffect", "useEffect", "useMemo", "useEffect", "useEffect">>

\* the hooks of the second definition, all called before any return
HooksV2 ==
  <<"useParams", "useState", "useState", "useState", "useQuery", "useQuery",
    "useEffect", "useEffect", "useEffect", "useEffect">>

\* the hooks a render that returns scr has called
HooksInvoked(ver, scr) ==
  IF ver = 2 THEN HooksV2
  ELSE IF scr \in {"loading", "placeholder"} THEN HooksBeforeReturnsV1
  ELSE Append(HooksBeforeReturnsV1, "useCallback")

\* the period of both countdown intervals
TickMs == 1000

\* Math.ceil(n / d) for d > 0
Ceil(n, d) == -((-n) \div d)

Countdown(ms) == [active |-> TRUE, elapsed |-> 0, sinceTick |-> 0, duration |-> ms]

\* slide countdown effect, first definition: guards display_time <= 0
StartSlideCountdownV1(list, idx) ==
  IF ~HasItemAt(list, idx) \/ ItemAt(list, idx).display_time <= 0 THEN NoCountdown
  ELSE Countdown(ItemAt(list, idx).display_time * MsPerMinute)

\* slide countdown effect, second definition in the file
StartSlideCountdownV2(list, idx) ==
  IF Len(list) = 0 THEN NoCountdown
  ELSE IF ~HasItemAt(list, idx) THEN NoCountdown
  ELSE Countdown(ItemAt(list, idx).display_time * MsPerMinute)

StartSlideCountdown(ver, list, idx) ==
  IF ver = 1 THEN StartSlideCountdownV1(list, idx) ELSE StartSlideCountdownV2(list, idx)

\* useMemo(() => items[currentIndex]) gives another object
CurrentItemChanged(list, idx) ==
  IF HasItemAt(list, idx) /\ HasItemAt(playerItems, currentIndex)
    THEN ItemAt(list, idx) # ItemAt(playerItems, currentIndex)
    ELSE HasItemAt(list, idx) # HasItemAt(playerItems, currentIndex)

PlayerInit ==
  /\ StoreIdle
  /\ TabsIdle
  /\ ManagerIdle
  /\ UploadIdle
  /\ ListIdle
  /\ AuthIdle
  /\ version \in {1, 2}
  /\ playerItems = <<>>
  /\ currentIndex = 0
  /\ timer = NoTimer
  /\ playerEvent = [kind |-> "mount", from |-> 0]
  /\ startIndex = 0
  /\ advances = 0
  /\ query = "loading"
  /\ screen = "loading"
  /\ life = "mounted"
  /\ pendingTimers = {}
  /\ presentation = NoPresentation
  /\ slideTimeRemaining = 0
  /\ refreshTimeRemaining = 0
  /\ slideCountdown = NoCountdown
  /\ refreshCountdown = NoCountdown

\* the component renders with query state q, list and idx; rearm tells that the
\* dependencies of the auto-advance effect changed, pend are the timeouts
\* pending before and lastId the handle setTimeout returned last.  React throws when the render calls other hooks than the
\* previous one did, which unmounts the tree (all cleanups run).
Rerender(q, list, idx, rearm, pend, lastId) ==
  LET scr == Render(version, q, list, idx)
      cleared == ClearTimeout(pend, timer)
      armed == SetTimeout(ArmTimer(version, list, idx), cleared, lastId)
      recount == IF version = 1 THEN CurrentItemChanged(list, idx) ELSE rearm
      counted == StartSlideCountdown(version, list, idx)
  IN  IF HooksInvoked(version, scr) # HooksInvoked(version, screen)
        THEN /\ life' = "crashed"
             /\ screen' = "unmounted"
             /\ currentIndex' = currentIndex
             /\ timer' = NoTimer
             /\ pendingTimers' = cleared
             /\ slideCountdown' = NoCountdown
             /\ refreshCountdown' = NoCountdown
             /\ slideTimeRemaining' = slideTimeRemaining
        ELSE /\ life' = life
             /\ screen' = scr
             /\ currentIndex' = idx
             /\ timer' = IF rearm THEN armed ELSE timer
             /\ pendingTimers' = IF rearm THEN cleared \cup Pending(armed) ELSE pend
             /\ slideCountdown' = IF recount THEN counted ELSE slideCountdown
             /\ refreshCountdown' = refreshCountdown
             /\ slideTimeRemaining' = IF recount /\ counted.active
                                        THEN Ceil(counted.duration, TickMs)
                                        ELSE slideTimeRemaining

\* a (re)fetch delivers: when the list differs from the one held, both effects
\* that depend on items run, then the auto-advance effect runs again for the
\* index the reset left
PlayerFetchOf(lists) ==
  /\ life = "mounted"
  /\ \E new \in lists :
       LET changed == new # playerItems
           idx == IF changed THEN ResetIndex(currentIndex) ELSE currentIndex
       IN  /\ changed \/ query # "success"
           /\ playerItems' = new
           /\ query' = "success"
           /\ Rerender("success", new, idx, changed, pendingTimers, timer.id)
           /\ playerEvent' = [kind |-> "fetch", from |-> currentIndex]
           /\ IF changed THEN startIndex' = currentIndex' /\ advances' = 0
              ELSE UNCHANGED <<startIndex, advances>>
  /\ UNCHANGED <<version, presentation, refreshTimeRemaining, exceptPlayer>>

\* the lists the items query can deliver
PlayerLists == {SortByOrderIndex(rs) : rs \in PlayerRowSets}

PlayerFetch == PlayerFetchOf(PlayerLists)

\* the items query fails: error is set, the data it had is kept
PlayerFetchFails ==
  /\ life = "mounted"
  /\ query # "error"
  /\ query' = "error"
  /\ Rerender("error", playerItems, currentIndex, FALSE, pendingTimers, timer.id)
  /\ playerEvent' = [kind |-> "fetch_error", from |-> currentIndex]
  /\ UNCHANGED <<version, playerItems, startIndex, advances, presentation,
                  refreshTimeRemaining, exceptPlayer>>

\* a pending timeout expires; the effect re-runs only if the index changed
TimerFire ==
  /\ life = "mounted"
  /\ \E t \in pendingTimers :
       LET idx == AdvanceIndex(currentIndex, t.len)
       IN  IF idx = currentIndex
             THEN /\ timer' = NoTimer
                  /\ pendingTimers' = pendingTimers \ {t}
                  /\ UNCHANGED <<currentIndex, screen, life, slideCountdown,
                                  refreshCountdown, slideTimeRemaining>>
             ELSE Rerender(query, playerItems, idx, TRUE, pendingTimers \ {t}, t.id)
  /\ playerEvent' = [kind |-> "advance", from |-> currentIndex]
  /\ \E restart \in BOOLEAN :
       IF restart \/ advances >= Len(playerItems)
         THEN startIndex' = currentIndex /\ advances' = 1
         ELSE startIndex' = startIndex /\ advances' = advances + 1
  /\ UNCHANGED <<version, playerItems, query, presentation, refreshTimeRemaining,
                  exceptPlayer>>

\* the route is left: the effects' cleanups run
PlayerUnmount ==
  /\ life = "mounted"
  /\ life' = "unmounted"
  /\ screen' = "unmounted"
  /\ timer' = NoTimer
  /\ pendingTimers' = ClearTimeout(pendingTimers, timer)
  /\ slideCountdown' = NoCountdown
  /\ refreshCountdown' = NoCountdown
  /\ playerEvent' = [kind |-> "unmount", from |-> currentIndex]
  /\ UNCHANGED <<version, playerItems, currentIndex, startIndex, advances, query,
                  presentation, slideTimeRemaining, refreshTimeRemaining, exceptPlayer>>

PlayerNext == PlayerFetch \/ TimerFire \/ PlayerUnmount

PlayerSpec == PlayerInit /\ [][PlayerNext]_vars

\* browser timers that are pending do expire
PlayerLive == PlayerSpec /\ WF_vars(TimerFire)

\* ------------------------------------------------------ player: what is shown
MaxSlides == 2

\* rows of either type whose url is '', not a URL, or a URL
SlideRow == [order_index : 0..(MaxSlides - 1), display_time : {1},
             type : {"image", "powerbi"}, url : {NoUrl, BadUrl, GoodUrl}]

\* the row sets a fetch can find: at most one row per order_index
SlideRowSets ==
  UNION {{{f[i] : i \in I} :
            f \in {g \in [I -> SlideRow] : \A i \in I : g[i].order_index = i}} :
          I \in SUBSET (0..(MaxSlides - 1))}

SlideLists == {SortByOrderIndex(rs) : rs \in SlideRowSets}

RenderFetch == PlayerFetchOf(SlideLists)

RenderNext == RenderFetch \/ PlayerFetchFails \/ TimerFire \/ PlayerUnmount

RenderSpec == PlayerInit /\ [][RenderNext]_vars

\* ------------------------------------------------------- player: countdowns
\* rows with a positive and with a negative display_time
CountdownRow == [order_index : 0..(MaxSlides - 1), display_time : {-1, 1},
                 type : {"image"}, url : {GoodUrl}]

CountdownLists ==
  {SortByOrderIndex(rs) :
     rs \in UNION {{{f[i] : i \in I} :
                      f \in {g \in [I -> CountdownRow] : \A i \in I : g[i].order_index = i}} :
                    I \in SUBSET (0..(MaxSlides - 1))}}

RefreshIntervals == {0, 1}

\* the wall clock moves on between two things the browser runs (timers of a
\* throttled tab come late)
TimeSteps == {20000, 20500}

\* elapsed times are kept up to here: beyond it every countdown shows 0
MaxElapsed == MsPerMinute + TickMs

Later(e, d) == IF e + d > MaxElapsed THEN MaxElapsed ELSE e + d

Run(c, d) ==
  IF c.active
    THEN [c EXCEPT !.elapsed = Later(@, d),
                   !.sinceTick = IF @ + d > TickMs THEN TickMs ELSE @ + d]
    ELSE c

Max(a, b) == IF a >= b THEN a ELSE b

\* Math.max(0, Math.ceil((duration - elapsed) / 1000))
Remaining(c) == Max(0, Ceil(c.duration - c.elapsed, TickMs))

\* refresh countdown effect, first definition: guards refresh_interval <= 0
StartRefreshCountdownV1(p) ==
  IF ~p.defined \/ p.refresh_interval <= 0 THEN NoCountdown
  ELSE Countdown(p.refresh_interval * MsPerMinute)

\* refresh countdown effect, second definition in the file
StartRefreshCountdownV2(p) ==
  IF ~p.defined THEN NoCountdown ELSE Countdown(p.refresh_interval * MsPerMinute)

StartRefreshCountdown(ver, p) ==
  IF ver = 1 THEN StartRefreshCountdownV1(p) ELSE StartRefreshCountdownV2(p)

CountdownFetch == PlayerFetchOf(CountdownLists)

\* the presentation query delivers; the refresh countdown effect runs
PresentationFetch ==
  /\ life = "mounted"
  /\ \E ri \in RefreshIntervals :
       LET p == [defined |-> TRUE, refresh_interval |-> ri]
           counted == StartRefreshCountdown(version, p)
       IN  /\ p # presentation
           /\ presentation' = p
           /\ refreshCountdown' = counted
           /\ refreshTimeRemaining' = IF counted.active
                                        THEN Ceil(counted.duration, TickMs)
                                        ELSE refreshTimeRemaining
  /\ playerEvent' = [kind |-> "presentation", from |-> currentIndex]
  /\ UNCHANGED <<version, playerItems, currentIndex, timer, startIndex, advances, query,
                  screen, life, pendingTimers, slideTimeRemaining, slideCountdown,
                  exceptPlayer>>

\* time passes for everything that is running
TimePasses ==
  /\ life = "mounted"
  /\ \E d \in TimeSteps :
       /\ timer' = IF timer.armed THEN [timer EXCEPT !.elapsed = Later(@, d)] ELSE timer
       /\ pendingTimers' = {[t EXCEPT !.elapsed = Later(@, d)] : t \in pendingTimers}
       /\ slideCountdown' = Run(slideCountdown, d)
       /\ refreshCountdown' = Run(refreshCountdown, d)
  /\ playerEvent' = [kind |-> "time", from |-> currentIndex]
  /\ UNCHANGED <<version, playerItems, currentIndex, startIndex, advances, query,
                  screen, life, presentation, slideTimeRemaining, refreshTimeRemaining,
                  exceptPlayer>>

\* the auto-advance timeout expires when its delay has passed
DueTimerFire ==
  /\ \A t \in pendingTimers : t.elapsed >= t.delay
  /\ TimerFire

\* the callback of the slide countdown's setInterval
SlideTick ==
  /\ life = "mounted"
  /\ slideCountdown.active
  /\ slideCountdown.sinceTick >= TickMs
  /\ LET remaining == Remaining(slideCountdown)
     IN  /\ slideTimeRemaining' = remaining
         /\ slideCountdown' = IF version = 1 /\ remaining = 0 THEN NoCountdown
                               ELSE [slideCountdown EXCEPT !.sinceTick = 0]
  /\ playerEvent' = [kind |-> "slide_tick", from |-> currentIndex]
  /\ UNCHANGED <<version, playerItems, currentIndex, timer, startIndex, advances, query,
                  screen, life, pendingTimers, presentation, refreshTimeRemaining,
                  refreshCountdown, exceptPlayer>>

\* the callback of the refresh countdown's setInterval
RefreshTick ==
  /\ life = "mounted"
  /\ refreshCountdown.active
  /\ refreshCountdown.sinceTick >= TickMs
  /\ LET remaining == Remaining(refreshCountdown)
     IN  IF remaining = 0
           THEN /\ refreshTimeRemaining' = Ceil(refreshCountdown.duration, TickMs)
                /\ refreshCountdown' = [refreshCountdown EXCEPT !.elapsed = 0, !.sinceTick = 0]
           ELSE /\ refreshTimeRemaining' = remaining
                /\ refreshCountdown' = [refreshCountdown EXCEPT !.sinceTick = 0]
  /\ playerEvent' = [kind |-> "refresh_tick", from |-> currentIndex]
  /\ UNCHANGED <<version, playerItems, currentIndex, timer, startIndex, advances, query,
                  screen, life, pendingTimers, presentation, slideTimeRemaining,
                  slideCountdown, exceptPlayer>>

CountdownNext ==
  \/ CountdownFetch
  \/ PresentationFetch
  \/ TimePasses
  \/ DueTimerFire
  \/ SlideTick
  \/ RefreshTick
  \/ PlayerUnmount

CountdownSpec == PlayerInit /\ [][CountdownNext]_vars

\* time goes on and a due interval callback does run
CountdownLive == CountdownSpec /\ WF_vars(TimePasses) /\ WF_vars(RefreshTick)

\* ----------------------------------------------------------- claims: player
AllPositive(list) == \A k \in 1..Len(list) : list[k].display_time > 0

\* C1: counting from any index, the index after k advances over a list of
\* length N >= 1 is (start + k) mod N, so after N advances it is the start again.
C1_LoopReturnsToStart ==
  Len(playerItems) >= 1 =>
    /\ currentIndex = (startIndex + advances) % Len(playerItems)
    /\ advances = Len(playerItems) => currentIndex = startIndex

C1_Witness ==
  /\ Len(playerItems) = MaxItems
  /\ advances = Len(playerItems)
  /\ startIndex = 1
  /\ currentIndex = 1
  /\ playerEvent.kind = "advance"

\* C4: while the active item's display_time is 0 or negative no auto-advance
\* timer is pending.
C4_NoTimerWhenNonPositive ==
  (HasItemAt(playerItems, currentIndex)
     /\ ItemAt(playerItems, currentIndex).display_time <= 0)
    => ~timer.armed

\* C8: a step that changes the list held by the player leaves currentIndex at 0.
C8_ResetOnListChange ==
  [][playerItems' # playerItems => currentIndex' = 0]_vars

C8_Witness ==
  /\ playerEvent.kind = "fetch"
  /\ playerEvent.from > 0
  /\ currentIndex = 0
  /\ Len(playerItems) > 1

\* C9: the timer pending for the active item runs for that item's display
\* duration, each expiry moves to the next item in order_index order and from
\* the last item to the first, and if the list stops changing while it is
\* non-empty with positive display times and the player is not left, every
\* position is shown again and again.
C9_CyclesThroughAllItems ==
  /\ [](timer.armed =>
          /\ HasItemAt(playerItems, currentIndex)
          /\ timer.delay = ItemAt(playerItems, currentIndex).display_time * MsPerMinute
          /\ timer.len = Len(playerItems))
  /\ [](\A k \in 1..(Len(playerItems) - 1) :
          playerItems[k].order_index <= playerItems[k + 1].order_index)
  /\ [][(playerItems' = playerItems /\ currentIndex' # currentIndex /\ AllPositive(playerItems))
          => currentIndex' = IF currentIndex = Len(playerItems) - 1 THEN 0
                             ELSE currentIndex + 1]_vars
  /\ \A k \in 0..(MaxItems - 1) :
       ((<>[][playerItems' = playerItems]_vars) /\ [](life # "unmounted"))
         => []<>((Len(playerItems) > k /\ AllPositive(playerItems))
                   => (currentIndex = k /\ life = "mounted"))

C9_Witness ==
  /\ Len(playerItems) = MaxItems
  /\ AllPositive(playerItems)
  /\ playerEvent.kind = "advance"
  /\ playerEvent.from = Len(playerItems) - 1
  /\ currentIndex = 0

\* C19: the pending timeouts of the player are exactly the one the auto-advance
\* effect holds (so at most one, and none once the player is gone); a step that
\* changes the index, the list or unmounts the player leaves none of the
\* timeouts that were pending before; an expiry moves the index by one position.
C19_AtMostOneTimerPending ==
  /\ [](Cardinality(pendingTimers) <= 1 /\ pendingTimers = Pending(timer))
  /\ [](life # "mounted" => pendingTimers = {})
  /\ [][(currentIndex' # currentIndex \/ playerItems' # playerItems \/ life' # life)
          => pendingTimers \cap pendingTimers' = {}]_vars
  /\ [][(playerEvent'.kind = "advance" /\ pendingTimers' # pendingTimers)
          => currentIndex' = (currentIndex + 1) % Len(playerItems)]_vars

C19_Witness ==
  /\ playerEvent.kind = "advance"
  /\ playerEvent.from = 0
  /\ currentIndex = 1
  /\ Cardinality(pendingTimers) = 1
  /\ \A t \in pendingTimers :
       t.delay = ItemAt(playerItems, currentIndex).display_time * MsPerMinute

\* C20: no render of the player throws: the hooks a render calls are those the
\* previous render called, whatever screen either of them returns.
C20_SameHooksEveryRender == life # "crashed"

\* C16: while the player is mounted and its items query has succeeded, an empty
\* list shows the placeholder, an active item whose url is empty or not a URL
\* shows the inline error, and an image or iframe is shown only for a valid URL.
C16_PlaceholderAndInlineError ==
  (life = "mounted" /\ query = "success") =>
    /\ Len(playerItems) = 0 => screen = "placeholder"
    /\ HasItemAt(playerItems, currentIndex) =>
         /\ ~IsValidUrl(ItemAt(playerItems, currentIndex).url) => screen = "invalid_url"
         /\ screen \in {"image", "iframe"} => IsValidUrl(ItemAt(playerItems, currentIndex).url)
         /\ screen # "blank"

\* the item at the active index is the one that was there before the step
SameItemActive ==
  /\ HasItemAt(playerItems, currentIndex)
  /\ HasItemAt(playerItems', currentIndex')
  /\ ItemAt(playerItems', currentIndex') = ItemAt(playerItems, currentIndex)

FullSeconds(item) == item.display_time * 60

\* C22: for an active item with positive display_time the slide countdown
\* starts at display_time x 60 seconds, every tick sets it to
\* max(0, ceil((display_time x 60000 - elapsed ms) / 1000)), it is never
\* negative, it never increases while the same item stays active, and no tick
\* runs once it has reached 0.
C22_SlideCountdown ==
  [][(life' = "mounted" /\ HasItemAt(playerItems', currentIndex')
        /\ ItemAt(playerItems', currentIndex').display_time > 0) =>
       LET item == ItemAt(playerItems', currentIndex')
       IN  /\ ~SameItemActive => slideTimeRemaining' = FullSeconds(item)
           /\ playerEvent'.kind = "slide_tick" =>
                slideTimeRemaining' =
                  Max(0, Ceil(item.display_time * MsPerMinute - slideCountdown.elapsed, TickMs))
           /\ slideTimeRemaining' >= 0
           /\ SameItemActive => slideTimeRemaining' <= slideTimeRemaining
           /\ (SameItemActive /\ slideTimeRemaining = 0) => playerEvent'.kind # "slide_tick"]_vars

\* C23: the slide countdown shown belongs to the active item: a step that makes
\* another item active sets slideTimeRemaining to that item's full time, and
\* in every state it is at most the active item's display_time x 60 seconds.
C23_CountdownOfActiveItem ==
  /\ []((life = "mounted" /\ HasItemAt(playerItems, currentIndex)) =>
          slideTimeRemaining <= FullSeconds(ItemAt(playerItems, currentIndex)))
  /\ [][(life' = "mounted" /\ HasItemAt(playerItems', currentIndex') /\ ~SameItemActive) =>
          slideTimeRemaining' = FullSeconds(ItemAt(playerItems', currentIndex'))]_vars

\* a refresh tick that found nothing left and put the full interval back
RefreshRestarted ==
  /\ life = "mounted"
  /\ playerEvent.kind = "refresh_tick"
  /\ refreshTimeRemaining = presentation.refresh_interval * 60

\* C24: for a presentation with positive refresh_interval the refresh countdown
\* starts at refresh_interval x 60 seconds, every tick recomputes it from the
\* elapsed time and puts the full interval back when nothing is left, steps of
\* the items query, the auto-advance and the slide countdown leave it alone,
\* and as long as the player is not taken down it restarts again and again.
C24_RefreshCountdownCycles ==
  /\ [][(presentation'.defined /\ presentation'.refresh_interval > 0) =>
          LET full == presentation'.refresh_interval * 60
              left == Max(0, Ceil(presentation'.refresh_interval * MsPerMinute
                                    - refreshCountdown.elapsed, TickMs))
          IN  /\ playerEvent'.kind = "presentation" => refreshTimeRemaining' = full
              /\ playerEvent'.kind = "refresh_tick" =>
                   refreshTimeRemaining' = IF left = 0 THEN full ELSE left
              /\ playerEvent'.kind \in {"fetch", "advance", "slide_tick"} =>
                   UNCHANGED <<refreshCountdown, refreshTimeRemaining>>]_vars
  /\ (<>[](presentation.defined /\ presentation.refresh_interval > 0 /\ life # "unmounted"))
       => []<>RefreshRestarted

\* ==================================================================== manager
InvalidateNothing(refetching) == refetching

\* queryClient.invalidateQueries({ queryKey }): the query is marked stale and,
\* being observed, refetched
Invalidate(refetching) == TRUE

\* the form edits the items of presentation p1
EditedPres == "p1"

Data(list) == [defined |-> TRUE, data |-> list]

\* const { data: items = [] } = useQuery(...)
QueryItems(c) == IF c.defined THEN c.data ELSE <<>>

Range(list) == {list[k] : k \in 1..Len(list)}

\* the orders in which .order('order_index') can return the rows ids of table it
SortedOrders(ids, it) ==
  {s \in [1..Cardinality(ids) -> ids] :
     /\ \A j, k \in 1..Cardinality(ids) : j # k => s[j] # s[k]
     /\ \A k \in 1..(Cardinality(ids) - 1) :
          it[s[k]].order_index <= it[s[k + 1]].order_index}

\* localItems.findIndex(item => item.id === id)
FindIndex(list, id) ==
  IF \E k \in 1..Len(list) : list[k] = id
    THEN (CHOOSE k \in 1..Len(list) : list[k] = id) - 1
    ELSE -1

ArraySwap(list, from, to) ==
  [k \in 1..Len(list) |->
     IF k = from + 1 THEN list[to + 1]
     ELSE IF k = to + 1 THEN list[from + 1]
     ELSE list[k]]

\* arrayMove(array, from, to) of @dnd-kit/sortable, 0-based positions
ArrayMove(list, from, to) ==
  LET without == [k \in 1..(Len(list) - 1) |->
                    IF k < from + 1 THEN list[k] ELSE list[k + 1]]
  IN  [k \in 1..Len(list) |->
         IF k < to + 1 THEN without[k]
         ELSE IF k = to + 1 THEN list[from + 1]
         ELSE without[k - 1]]

\* reorderedItems.map((item, index) => ...update({ order_index: index }).eq('id', item.id))
ReorderUpdates(seq) ==
  [k \in 1..Len(seq) |-> [id |-> seq[k], order_index |-> k - 1]]

ItemsOf(pid) == {i \in DOMAIN items : items[i].presentation_id = pid}

\* observer: the order_index stored for each item of the presentation
StoredOrder(pid) == [i \in ItemsOf(pid) |-> items[i].order_index]

RemoveAt(list, m) == [k \in 1..(Len(list) - 1) |-> IF k < m THEN list[k] ELSE list[k + 1]]

ManagerInit ==
  /\ presentations = [pid \in {EditedPres} |-> [user_id |-> "u1", is_public |-> TRUE, title |-> <<"a">>]]
  /\ items = [i \in {1, 2} |-> [presentation_id |-> EditedPres, type |-> "image",
                                  url |-> NoUrl, display_time |-> 1, order_index |-> i - 1]]
  /\ resp = NoResp
  /\ PlayerIdle
  /\ TabsIdle
  /\ UploadIdle
  /\ ListIdle
  /\ AuthIdle
  /\ mgrUid \in Users
  /\ cache = NoData
  /\ localItems = <<>>
  /\ refetchPending = FALSE
  /\ mutations = <<>>
  /\ toast = "none"
  /\ mgrEvent = [kind |-> "mount", seq |-> <<>>]
  /\ persisted = <<>>
  /\ ops = 0

\* the items query delivers; the sync effect copies the data to localItems
MgrFetch ==
  /\ refetchPending \/ ~cache.defined
  /\ \E list \in SortedOrders(SelectItems(mgrUid, EditedPres, items, presentations), items) :
       /\ cache' = Data(list)
       /\ localItems' = list
       /\ persisted' = list
  /\ refetchPending' = FALSE
  /\ resp' = Resp("select_items", mgrUid, {EditedPres}, FALSE, 0,
                  SelectItems(mgrUid, EditedPres, items, presentations))
  /\ mgrEvent' = [kind |-> "fetch", seq |-> <<>>]
  /\ UNCHANGED <<presentations, items, mgrUid, mutations, toast, ops, exceptManager>>

\* addItem(type) with the insert answered by the store
MgrAddItem ==
  /\ ops < MaxOps
  /\ ops' = ops + 1
  /\ \E id \in ItemIds, t \in {"image"} :
       DbInsertItem(mgrUid, id, [presentation_id |-> EditedPres, type |-> t, url |-> NoUrl,
                                 display_time |-> 1, order_index |-> Len(localItems)])
  /\ IF resp'.error
       THEN toast' = "Erro ao adicionar item" /\ refetchPending' = refetchPending
       ELSE toast' = "Item adicionado com sucesso!" /\ refetchPending' = Invalidate(refetchPending)
  /\ mgrEvent' = [kind |-> "add", seq |-> <<>>]
  /\ UNCHANGED <<mgrUid, cache, localItems, mutations, persisted, exceptManager>>

\* deleteItem(id), confirmed, with the delete answered by the store
MgrDeleteItem ==
  /\ ops < MaxOps
  /\ ops' = ops + 1
  /\ \E k \in 1..Len(localItems) : DbDeleteItem(mgrUid, localItems[k])
  /\ IF resp'.error
       THEN toast' = "Erro ao remover item" /\ refetchPending' = refetchPending
       ELSE toast' = "Item removido com sucesso!" /\ refetchPending' = Invalidate(refetchPending)
  /\ mgrEvent' = [kind |-> "delete", seq |-> <<>>]
  /\ UNCHANGED <<mgrUid, cache, localItems, mutations, persisted, exceptManager>>

\* handleDragEnd, then onMutate of the reorder mutation: the updates go out
HandleDragEnd ==
  /\ ops < MaxOps
  /\ ops' = ops + 1
  /\ Len(mutations) < MaxInFlight
  /\ \E active \in ItemIds, over \in ItemIds :
       LET oldIndex == FindIndex(localItems, active)
           newIndex == FindIndex(localItems, over)
           reorderedItems == ArrayMove(localItems, oldIndex, newIndex)
       IN  /\ active # over
           /\ oldIndex # -1 /\ newIndex # -1
           /\ localItems' = reorderedItems
           /\ cache' = Data(reorderedItems)
           /\ mutations' = Append(mutations,
                               [seq |-> reorderedItems, previousItems |-> cache,
                                updates |-> ReorderUpdates(reorderedItems),
                                todo |-> 1..Len(reorderedItems), failed |-> FALSE,
                                stored |-> StoredOrder(EditedPres)])
           /\ mgrEvent' = [kind |-> "drag", seq |-> reorderedItems,
                            active |-> active, over |-> over]
  /\ refetchPending' = FALSE
  /\ UNCHANGED <<storeVars, mgrUid, toast, persisted, exceptManager>>

\* the store answers one of the updates of a reorder
ReorderUpdateAnswered ==
  /\ \E m \in 1..Len(mutations) : \E k \in mutations[m].todo :
       /\ DbUpdateItem(mgrUid, mutations[m].updates[k].id,
                        [order_index |-> mutations[m].updates[k].order_index])
       /\ mutations' = [mutations EXCEPT ![m].todo = @ \ {k},
                                          ![m].failed = @ \/ resp'.error]
  /\ mgrEvent' = [kind |-> "update", seq |-> <<>>]
  /\ UNCHANGED <<mgrUid, cache, localItems, refetchPending, toast, persisted,
                  ops, exceptManager>>

\* one of the updates of a reorder comes back with an error (network, server)
ReorderUpdateFails ==
  /\ \E m \in 1..Len(mutations) : \E k \in mutations[m].todo :
       mutations' = [mutations EXCEPT ![m].todo = @ \ {k}, ![m].failed = TRUE]
  /\ mgrEvent' = [kind |-> "update", seq |-> <<>>]
  /\ UNCHANGED <<storeVars, mgrUid, cache, localItems, refetchPending, toast,
                  persisted, ops, exceptManager>>

\* Promise.all has resolved: onError or onSuccess, then onSettled
ReorderSettle ==
  /\ \E m \in 1..Len(mutations) :
       LET mut == mutations[m]
       IN  /\ mut.todo = {}
           /\ mutations' = RemoveAt(mutations, m)
           /\ IF mut.failed
                THEN /\ IF mut.previousItems.defined
                          THEN /\ cache' = mut.previousItems
                               /\ localItems' = mut.previousItems.data
                          ELSE UNCHANGED <<cache, localItems>>
                     /\ toast' = "Nao foi possivel salvar a nova ordem"
                     /\ persisted' = persisted
                     /\ mgrEvent' = [kind |-> "reorder_error", seq |-> mut.seq]
                ELSE /\ UNCHANGED <<cache, localItems>>
                     /\ toast' = "Ordem atualizada!"
                     /\ persisted' = mut.seq
                     /\ mgrEvent' = [kind |-> "reorder_ok", seq |-> mut.seq]
  /\ refetchPending' = Invalidate(refetchPending)
  /\ UNCHANGED <<storeVars, mgrUid, ops, exceptManager>>

ManagerNext ==
  \/ MgrFetch
  \/ MgrAddItem
  \/ MgrDeleteItem
  \/ HandleDragEnd
  \/ ReorderUpdateAnswered
  \/ ReorderUpdateFails
  \/ ReorderSettle

ManagerSpec == ManagerInit /\ [][ManagerNext]_vars

\* ---------------------------------------------------------- claims: manager
ReorderSettled(kind) == mgrEvent'.kind = kind /\ Len(mutations') < Len(mutations)

\* C2: when a reorder has failed and its onError has run, localItems and the
\* cached list are the last successfully persisted order and the error toast
\* is up.
C2_RollbackShowsPersisted ==
  [][ReorderSettled("reorder_error") =>
       /\ localItems' = persisted'
       /\ QueryItems(cache') = persisted'
       /\ toast' = "Nao foi possivel salvar a nova ordem"]_vars

\* C3: with no reorder in flight, the order_index values of the items of the
\* presentation are pairwise distinct and are exactly 0..n-1.
C3_OrderIndexContiguous ==
  mutations = <<>> =>
    /\ \A i, j \in ItemsOf(EditedPres) :
         i # j => items[i].order_index # items[j].order_index
    /\ {items[i].order_index : i \in ItemsOf(EditedPres)}
         = 0..(Cardinality(ItemsOf(EditedPres)) - 1)

\* C10: when a reorder of the sequence L has completed successfully, one
\* update was issued for each item of L and the stored order_index of L[i] is i.
C10_ReorderPersistsPositions ==
  [][ReorderSettled("reorder_ok") =>
       \E m \in 1..Len(mutations) :
         /\ mutations' = RemoveAt(mutations, m)
         /\ mutations[m].seq = mgrEvent'.seq
         /\ \A k \in 1..Len(mutations[m].seq) :
              /\ Cardinality({j \in DOMAIN mutations[m].updates :
                                mutations[m].updates[j].id = mutations[m].seq[k]}) = 1
              /\ mutations[m].seq[k] \in DOMAIN items'
              /\ items'[mutations[m].seq[k]].order_index = k - 1]_vars

\* C18: when a reorder has failed and settled, every item still stored has the
\* order_index it had when that reorder started.
C18_ReorderAllOrNothing ==
  [][ReorderSettled("reorder_error") =>
       \E m \in 1..Len(mutations) :
         /\ mutations' = RemoveAt(mutations, m)
         /\ mutations[m].failed
         /\ \A i \in DOMAIN mutations[m].stored :
              i \in DOMAIN items' => items'[i].order_index = mutations[m].stored[i]]_vars

\* C21: a drop of item a on another item b leaves a local sequence that is a
\* permutation of the old one with a at the index b had and the other items in
\* their old relative order; it is displayed (local list and cached list) in
\* that same step, while all updates of the reorder are still unanswered and
\* the store is unchanged.
C21_DropMovesItem ==
  [][(mgrEvent'.kind = "drag" /\ ops' = ops + 1) =>
       LET a == mgrEvent'.active
           b == mgrEvent'.over
       IN  /\ a # b
           /\ Len(localItems') = Len(localItems)
           /\ Range(localItems') = Range(localItems)
           /\ FindIndex(localItems', a) = FindIndex(localItems, b)
           /\ \A x, y \in Range(localItems) \ {a} :
                FindIndex(localItems, x) < FindIndex(localItems, y)
                  => FindIndex(localItems', x) < FindIndex(localItems', y)
           /\ QueryItems(cache') = localItems'
           /\ mutations'[Len(mutations')].seq = localItems'
           /\ mutations'[Len(mutations')].todo = 1..Len(localItems')
           /\ items' = items]_vars

C21_Witness ==
  /\ mgrEvent.kind = "drag"
  /\ Len(localItems) = 3
  /\ localItems[3] = mgrEvent.active
  /\ Len(mutations) = 1
  /\ mutations[1].previousItems.data[1] = mgrEvent.active
  /\ mutations[1].todo = 1..3

\* C12: a drag that starts a reorder happens only while no reorder of the
\* form is in flight.
C12_NoSecondReorderInFlight ==
  [][mgrEvent'.kind = "drag" => mutations = <<>>]_vars

\* ============================================================== two sessions
\* reorders each session makes
MaxReorders == 1

\* both sessions are the owner's
TabUid == "u1"

TwoSessionInit ==
  /\ presentations = [pid \in {EditedPres} |-> [user_id |-> TabUid, is_public |-> TRUE, title |-> <<"a">>]]
  /\ items = [i \in {1, 2, 3} |-> [presentation_id |-> EditedPres, type |-> "image",
                                     url |-> NoUrl, display_time |-> 1, order_index |-> i - 1]]
  /\ resp = NoResp
  /\ PlayerIdle
  /\ ManagerIdle
  /\ UploadIdle
  /\ ListIdle
  /\ AuthIdle
  /\ tabs = [t \in Tabs |-> NoTab]

\* the items query of session t delivers; the sync effect copies the data
TabFetch(t) ==
  /\ tabs[t].refetchPending \/ ~tabs[t].cache.defined
  /\ \E list \in SortedOrders(SelectItems(TabUid, EditedPres, items, presentations), items) :
       tabs' = [tabs EXCEPT ![t].cache = Data(list), ![t].localItems = list,
                            ![t].refetchPending = FALSE, ![t].event = "fetch"]
  /\ resp' = Resp("select_items", TabUid, {EditedPres}, FALSE, 0,
                  SelectItems(TabUid, EditedPres, items, presentations))
  /\ UNCHANGED <<presentations, items, exceptTabs>>

\* handleDragEnd in session t, then onMutate: the updates go out
TabDragEnd(t) ==
  /\ tabs[t].reorders < MaxReorders
  /\ Len(tabs[t].mutations) < MaxInFlight
  /\ \E active \in ItemIds, over \in ItemIds :
       LET oldIndex == FindIndex(tabs[t].localItems, active)
           newIndex == FindIndex(tabs[t].localItems, over)
           reorderedItems == ArrayMove(tabs[t].localItems, oldIndex, newIndex)
       IN  /\ active # over
           /\ oldIndex # -1 /\ newIndex # -1
           /\ tabs' = [tabs EXCEPT
                         ![t].localItems = reorderedItems,
                         ![t].cache = Data(reorderedItems),
                         ![t].mutations =
                            Append(@, [seq |-> reorderedItems,
                                       previousItems |-> tabs[t].cache,
                                       updates |-> ReorderUpdates(reorderedItems),
                                       todo |-> 1..Len(reorderedItems),
                                       failed |-> FALSE]),
                         ![t].refetchPending = FALSE,
                         ![t].event = "drag",
                         ![t].submitted = reorderedItems,
                         ![t].reorders = @ + 1]
  /\ UNCHANGED <<storeVars, exceptTabs>>

\* the store answers one of the updates of a reorder of session t
TabUpdateAnswered(t) ==
  /\ \E m \in 1..Len(tabs[t].mutations) : \E k \in tabs[t].mutations[m].todo :
       /\ DbUpdateItem(TabUid, tabs[t].mutations[m].updates[k].id,
                        [order_index |-> tabs[t].mutations[m].updates[k].order_index])
       /\ tabs' = [tabs EXCEPT ![t].mutations[m].todo = @ \ {k},
                                ![t].mutations[m].failed = @ \/ resp'.error,
                                ![t].event = "update"]
  /\ UNCHANGED exceptTabs

\* Promise.all of a reorder of session t has resolved: onError or onSuccess,
\* then onSettled
TabSettle(t) ==
  /\ \E m \in 1..Len(tabs[t].mutations) :
       LET mut == tabs[t].mutations[m]
           rollback == mut.failed /\ mut.previousItems.defined
       IN  /\ mut.todo = {}
           /\ tabs' = [tabs EXCEPT
                         ![t].mutations = RemoveAt(@, m),
                         ![t].cache = IF rollback THEN mut.previousItems ELSE @,
                         ![t].localItems = IF rollback THEN mut.previousItems.data ELSE @,
                         ![t].toast = IF mut.failed
                                        THEN "Nao foi possivel salvar a nova ordem"
                                        ELSE "Ordem atualizada!",
                         ![t].event = IF mut.failed THEN "reorder_error" ELSE "reorder_ok",
                         ![t].refetchPending = TRUE]
  /\ UNCHANGED <<storeVars, exceptTabs>>

TwoSessionNext ==
  \E t \in Tabs :
    \/ TabFetch(t)
    \/ TabDragEnd(t)
    \/ TabUpdateAnswered(t)
    \/ TabSettle(t)

TwoSessionSpec == TwoSessionInit /\ [][TwoSessionNext]_vars

\* ------------------------------------------------------ claims: two sessions
\* the store holds the order seq: the item at position k has order_index k
OrderStored(seq) ==
  \A k \in 1..Len(seq) : seq[k] \in DOMAIN items /\ items[seq[k]].order_index = k - 1

\* C17: when each of the two sessions has made one reorder and both have
\* completed successfully, the stored order is the complete order one of the
\* two sessions submitted.
C17_LastWriteWins ==
  (\A t \in Tabs : /\ tabs[t].reorders = 1
                   /\ tabs[t].mutations = <<>>
                   /\ tabs[t].toast = "Ordem atualizada!")
    => \E t \in Tabs : OrderStored(tabs[t].submitted)

\* ===================================================================== upload
MaxSizeBeforeCompression == 20 * 1024 * 1024

AllowedTypes == {"image/jpeg", "image/jpg", "image/png", "image/webp", "image/gif"}

\* the types of the files tried: two allowed ones and two others
FileTypes == {"image/jpg", "image/png", "image/svg+xml", "application/pdf"}

FileSizes == {1, MaxSizeBeforeCompression, MaxSizeBeforeCompression + 1}

Files == [type : FileTypes, size : FileSizes]

ValidateImageFileNoSizeCheck(file) ==
  IF file.type \notin AllowedTypes THEN "type" ELSE "ok"

\* validateImageFile: which check rejects the file, or "ok"
ValidateImageFile(file) ==
  IF file.type \notin AllowedTypes THEN "type"
  ELSE IF file.size > MaxSizeBeforeCompression THEN "size"
  ELSE "ok"

ValidationToast(verdict) ==
  IF verdict = "type"
    THEN "Tipo de arquivo nao suportado. Use JPG, PNG, WebP ou GIF."
    ELSE "Arquivo muito grande. Tamanho maximo: 20MB."

UploadInit == ManagerInit

\* the file imageCompression produces (maxSizeMB: 1)
Compressed(file) == [type |-> file.type, size |-> 1]

CompressImageNoFallback(file, ok) == IF ok THEN Compressed(file) ELSE NoFile

\* compressImage: the compressed file, or the original one when the library throws
CompressImage(file, ok) == IF ok THEN Compressed(file) ELSE file

\* ------------------------------------------------------- upload: storage key
MaxName == 2

MaxClock == 2

\* the characters tried in file names: a letter, a letter with an accent, a
\* blank and a dot
FileNameChars == {"a", "a'", " ", "."}

\* U+0300..U+036F, the combining marks
CombiningMarks == {"'"}

\* [a-zA-Z0-9.-] among the characters tried
KeptChars == {"a", ".", "-"}

FileNames == UNION {[1..n -> FileNameChars] : n \in 1..MaxName}

\* the names of the files tried next to the other inputs of an upload
UploadNames == {<<"a">>, <<"a'">>}

\* the values Date.now() returns
Times == 1..MaxClock

\* .normalize('NFD'): a letter with an accent becomes the letter and its mark
RECURSIVE Normalize(_)
Normalize(name) ==
  IF name = <<>> THEN <<>>
  ELSE (IF Head(name) = "a'" THEN <<"a", "'">> ELSE <<Head(name)>>) \o Normalize(Tail(name))

\* .replace(/[\u0300-\u036f]/g, '')
RECURSIVE StripMarks(_)
StripMarks(name) ==
  IF name = <<>> THEN <<>>
  ELSE (IF Head(name) \in CombiningMarks THEN <<>> ELSE <<Head(name)>>) \o StripMarks(Tail(name))

\* .replace(/[^a-zA-Z0-9.-]/g, '_')
RECURSIVE ReplaceSpecial(_)
ReplaceSpecial(name) ==
  IF name = <<>> THEN <<>>
  ELSE <<IF Head(name) \in KeptChars THEN Head(name) ELSE "_">> \o ReplaceSpecial(Tail(name))

\* .replace(/_{2,}/g, '_')
RECURSIVE CollapseUnderscores(_)
CollapseUnderscores(name) ==
  IF Len(name) < 2 THEN name
  ELSE IF name[1] = "_" /\ name[2] = "_" THEN CollapseUnderscores(Tail(name))
  ELSE <<Head(name)>> \o CollapseUnderscores(Tail(name))

SanitizedName(name) == CollapseUnderscores(ReplaceSpecial(StripMarks(Normalize(name))))

\* `${Date.now()}_${sanitizedName}`
StorageKey(now, name) == <<now, "_">> \o SanitizedName(name)

NoKey == <<0>>

\* the keys this session has built or stored so far
KnownKeys ==
  {uploadStates[i].fileName : i \in DOMAIN uploadStates} \cup {o.name : o \in storage}

\* Date.now() does not go back
ClockNow == {t \in Times : \A key \in KnownKeys : key[1] <= t}

\* supabase.storage.from('presentation-images').getPublicUrl(fileName)
PublicUrl(key) == <<"https:", "presentation-images", key>>

\* handleImageUpload up to its first await
HandleImageUpload ==
  /\ ops < MaxOps
  /\ ops' = ops + 1
  /\ \E k \in 1..Len(localItems), file \in Files :
       LET itemId == localItems[k]
           verdict == ValidateImageFile(file)
       IN  /\ itemId \notin DOMAIN uploadStates
           /\ IF verdict # "ok"
                THEN /\ toast' = ValidationToast(verdict)
                     /\ uploadEvent' = [kind |-> "rejected", item |-> itemId, file |-> file]
                     /\ UNCHANGED <<uploadStates, calls>>
                ELSE /\ uploadStates' =
                          Put(uploadStates, itemId,
                              [isCompressing |-> TRUE, isUploading |-> FALSE,
                               originalSize |-> file.size, compressedSize |-> 0,
                               file |-> file, compressedFile |-> NoFile,
                               fileName |-> NoKey, fellBack |-> FALSE])
                     /\ calls' = [calls EXCEPT !.compress = @ + 1]
                     /\ uploadEvent' = [kind |-> "accepted", item |-> itemId, file |-> file]
                     /\ toast' = toast
  /\ UNCHANGED <<storeVars, storage, mgrUid, cache, localItems, refetchPending,
                  mutations, mgrEvent, persisted, exceptUpload>>

\* compressImage returns; the storage upload of what it returned goes out
CompressDoneOf(names) ==
  /\ \E itemId \in DOMAIN uploadStates, ok \in BOOLEAN, name \in names, now \in ClockNow :
       LET st == uploadStates[itemId]
           compressedFile == CompressImage(st.file, ok)
       IN  /\ st.isCompressing
           /\ uploadStates' =
                [uploadStates EXCEPT ![itemId] =
                   [st EXCEPT !.isCompressing = FALSE, !.isUploading = TRUE,
                              !.compressedSize = compressedFile.size,
                              !.compressedFile = compressedFile,
                              !.fileName = StorageKey(now, name),
                              !.fellBack = ~ok]]
           /\ toast' = IF ok THEN toast
                        ELSE "Erro ao comprimir imagem. Tentando upload sem compressao."
           /\ uploadEvent' = [kind |-> IF ok THEN "compressed" ELSE "compress_failed",
                              item |-> itemId, file |-> compressedFile]
  /\ calls' = [calls EXCEPT !.upload = @ + 1]
  /\ UNCHANGED <<storeVars, storage, mgrUid, cache, localItems, refetchPending,
                  mutations, mgrEvent, persisted, ops, exceptUpload>>

CompressDone == CompressDoneOf(UploadNames)

\* the storage upload is answered; on success updateItem(itemId, { url }) runs
UploadDone ==
  /\ \E itemId \in DOMAIN uploadStates, ok \in BOOLEAN :
       LET st == uploadStates[itemId]
       IN  /\ st.isUploading
           \* an object of that name exists: the upload (no upsert) is refused
           /\ ok => \A o \in storage : o.name # st.fileName
           /\ uploadStates' = Drop(uploadStates, {itemId})
           /\ IF ok
                THEN /\ storage' = storage \cup
                                     {[name |-> st.fileName, file |-> st.compressedFile]}
                     /\ DbUpdateItem(mgrUid, itemId, [url |-> PublicUrl(st.fileName)])
                     /\ calls' = [calls EXCEPT !.update = @ + 1]
                     /\ IF resp'.error \/ resp'.count = 0
                          THEN toast' = "Erro ao atualizar item"
                               /\ refetchPending' = refetchPending
                          ELSE toast' = "Imagem carregada com sucesso!"
                               /\ refetchPending' = Invalidate(refetchPending)
                     /\ uploadEvent' = [kind |-> "uploaded", item |-> itemId,
                                        file |-> st.compressedFile]
                ELSE /\ toast' = "Erro ao carregar imagem"
                     /\ uploadEvent' = [kind |-> "upload_failed", item |-> itemId,
                                        file |-> st.compressedFile]
                     /\ UNCHANGED <<storeVars, storage, calls, refetchPending>>
  /\ UNCHANGED <<mgrUid, cache, localItems, mutations, mgrEvent, persisted, ops,
                  exceptUpload>>

UploadFetch == MgrFetch

UploadNext ==
  \/ UploadFetch
  \/ HandleImageUpload
  \/ CompressDone
  \/ UploadDone

UploadSpec == UploadInit /\ [][UploadNext]_vars

\* uploads of files of every name tried
KeyCompressDone == CompressDoneOf(FileNames)

KeyNext ==
  \/ UploadFetch
  \/ HandleImageUpload
  \/ KeyCompressDone
  \/ UploadDone

KeySpec == UploadInit /\ [][KeyNext]_vars

\* ----------------------------------------------------------- claims: upload
\* the image format a MIME type names
FormatOf(type) ==
  CASE type \in {"image/jpeg", "image/jpg"} -> "jpeg"
    [] type = "image/png" -> "png"
    [] type = "image/webp" -> "webp"
    [] type = "image/gif" -> "gif"
    [] OTHER -> "other"

Disallowed(file) ==
  \/ FormatOf(file.type) \notin {"jpeg", "png", "webp", "gif"}
  \/ file.size > 20 * 1024 * 1024

\* C7: a call of handleImageUpload with a file of a disallowed type or of more
\* than 20 MB ends with an error toast, and issues no compression, no storage
\* upload and no item update; the stored rows and the upload state stay as
\* they were.
C7_InvalidFileRejected ==
  [][(ops' = ops + 1 /\ Disallowed(uploadEvent'.file)) =>
       /\ uploadEvent'.kind = "rejected"
       /\ toast' \in {ValidationToast("type"), ValidationToast("size")}
       /\ calls' = calls
       /\ storage' = storage
       /\ items' = items
       /\ uploadStates' = uploadStates]_vars

C7_Witness ==
  /\ uploadEvent.kind = "rejected"
  /\ uploadEvent.file.type = "image/png"
  /\ uploadEvent.file.size > MaxSizeBeforeCompression
  /\ toast = ValidationToast("size")
  /\ calls.upload > 0

Alphanumeric == {"a"}

\* C30: the key an upload goes out with is the time stamp, '_' and a name that
\* has only letters and digits left, and no other upload of the session and
\* no stored object has the same key.
C30_StorageKeyCleanAndUnique ==
  [][\A i \in DOMAIN uploadStates' :
       (calls'.upload = calls.upload + 1 /\ uploadEvent'.item = i) =>
         LET key == uploadStates'[i].fileName
         IN  /\ Len(key) > 2
             /\ key[1] \in Times
             /\ key[2] = "_"
             /\ \A k \in 3..Len(key) : key[k] \in Alphanumeric
             /\ \A j \in DOMAIN uploadStates' \ {i} : uploadStates'[j].fileName # key
             /\ \A o \in storage' : o.name # key]_vars

\* list is what the items query of the edit form returns from table it
IsStoreList(list, it, pt) ==
  /\ Range(list) = SelectItems(mgrUid, EditedPres, it, pt)
  /\ Len(list) = Cardinality(Range(list))
  /\ \A k \in 1..(Len(list) - 1) : it[list[k]].order_index <= it[list[k + 1]].order_index

MaxTitle == 3
\* gestures the user makes in the presentation list
MaxGestures == 2

Chars == {" ", "a"}

TitleInputs == UNION {[1..n -> Chars] : n \in 0..MaxTitle}

Whitespace(c) == c = " "

\* String.prototype.trim()
RECURSIVE TrimStart(_)
TrimStart(t) == IF t # <<>> /\ Whitespace(Head(t)) THEN TrimStart(Tail(t)) ELSE t

RECURSIVE TrimEnd(_)
TrimEnd(t) ==
  IF t # <<>> /\ Whitespace(t[Len(t)]) THEN TrimEnd(SubSeq(t, 1, Len(t) - 1)) ELSE t

TrimStartOnly(t) == TrimStart(t)

Trim(t) == TrimEnd(TrimStart(t))

\* insert into presentations values (row) returning *
DbInsertPresentation(uid, pid, row) ==
  LET new == [row EXCEPT !.user_id = IF @ = NULL THEN uid ELSE @]
  IN  /\ pid \notin DOMAIN presentations
      /\ IF Authenticated(uid) /\ uid # NULL /\ PresSelectPolicy(uid, new)
           THEN /\ presentations' = Put(presentations, pid, new)
                /\ resp' = Resp("insert_presentation", uid, {pid}, FALSE, 1, {})
           ELSE /\ presentations' = presentations
                /\ resp' = Resp("insert_presentation", uid, {pid}, TRUE, 0, {})
      /\ items' = items

\* any client of the store asks for an insert into presentations, with the
\* user_id it likes or with none
StoreInsertPresentation ==
  /\ \E uid \in Uids, pid \in PresIds, owner \in Uids, pub \in BOOLEAN :
       DbInsertPresentation(uid, pid, [user_id |-> owner, is_public |-> pub, title |-> <<"a">>])
  /\ UNCHANGED exceptStore

InsertNext ==
  \/ StoreInsertPresentation
  \/ StoreDeletePresentation
  \/ StoreUpdatePresentation

InsertSpec == StoreInit /\ [][InsertNext]_vars

\* C25: a row that appears in presentations was inserted by an authenticated
\* user and has that user's id as user_id; an insert without a user is refused.
C25_InsertedRowOwnedByInserter ==
  [][/\ \A pid \in DOMAIN presentations' \ DOMAIN presentations :
          /\ resp'.op = "insert_presentation"
          /\ resp'.uid # NULL
          /\ presentations'[pid].user_id = resp'.uid
     /\ (resp'.op = "insert_presentation" /\ resp'.uid = NULL) =>
          (resp'.error /\ presentations' = presentations)]_vars

\* delete from presentation_items where presentation_id = pid
DbDeleteItemsOf(uid, pid) ==
  LET rows == {i \in DOMAIN items :
                 /\ items[i].presentation_id = pid
                 /\ ItemSelectPolicy(uid, items[i], presentations)
                 /\ ItemDeletePolicy(uid, items[i], presentations)}
  IN  /\ items' = Drop(items, rows)
      /\ resp' = Resp("delete_items", uid, {pid}, FALSE, Cardinality(rows), {})
      /\ presentations' = presentations

\* a request that never reaches the store (network failure): { error } is set
RequestFails(op, uid, press) ==
  /\ resp' = Resp(op, uid, press, TRUE, 0, {})
  /\ UNCHANGED <<presentations, items>>

NoSessionNever(s) == FALSE

\* if (!session)
NoSession(s) == s = NULL

Mutation(kind, id, title, uid, step) ==
  [kind |-> kind, id |-> id, title |-> title, uid |-> uid, step |-> step]

IsPending(kind) == \E k \in 1..Len(pending) : pending[k].kind = kind

\* the cards PresentationManager shows: presentations its query returned
Listed(pid) ==
  pid \in DOMAIN presentations => pid \in VisiblePres(session, presentations)

ListInit ==
  /\ presentations = [pid \in {"p1"} |-> [user_id |-> "u1", is_public |-> TRUE, title |-> <<"a">>]]
  /\ items = [i \in {1, 2} |-> [presentation_id |-> "p1", type |-> "image",
                                  url |-> NoUrl, display_time |-> 1, order_index |-> i - 1]]
  /\ resp = NoResp
  /\ PlayerIdle
  /\ TabsIdle
  /\ ManagerIdle
  /\ UploadIdle
  /\ AuthIdle
  /\ session \in Uids
  /\ pending = <<>>
  /\ listEvent = NoRequest
  /\ isAuthOpen = FALSE

\* onAuthStateChange / getSession deliver a session
AuthStateChange ==
  /\ ops < MaxGestures
  /\ ops' = ops + 1
  /\ \E s \in Uids : s # session /\ session' = s
  /\ listEvent' = [NoRequest EXCEPT !.kind = "auth"]
  /\ UNCHANGED <<storeVars, pending, toast, isAuthOpen, exceptList>>

\* handleSubmit of the create form, then handleCreatePresentation
SubmitCreate ==
  /\ ops < MaxGestures
  /\ ops' = ops + 1
  /\ Len(pending) < MaxInFlight
  /\ ~IsPending("create")
  /\ \E input \in TitleInputs :
       IF Trim(input) = <<>>
         THEN /\ toast' = "Nome da apresentacao e obrigatorio"
              /\ isAuthOpen' = isAuthOpen
              /\ listEvent' = [kind |-> "invalid_title", id |-> "", input |-> input,
                               title |-> <<>>]
              /\ pending' = pending
         ELSE IF NoSession(session)
           THEN /\ toast' = "Faca login para criar apresentacoes"
                /\ isAuthOpen' = TRUE
                /\ listEvent' = [kind |-> "create_no_session", id |-> "", input |-> input,
                                 title |-> Trim(input)]
                /\ pending' = pending
           ELSE /\ toast' = toast
                /\ isAuthOpen' = isAuthOpen
                /\ listEvent' = [kind |-> "create", id |-> "", input |-> input,
                                 title |-> Trim(input)]
                /\ pending' = Append(pending,
                                     Mutation("create", "", Trim(input), session, "request"))
  /\ UNCHANGED <<storeVars, session, exceptList>>

\* handleSubmit of the edit form, then its onSubmit: updateSettingsMutation.mutate
SubmitSettings ==
  /\ ops < MaxGestures
  /\ ops' = ops + 1
  /\ Len(pending) < MaxInFlight
  /\ ~IsPending("settings")
  /\ \E pid \in PresIds, input \in TitleInputs :
       /\ Listed(pid)
       /\ IF Trim(input) = <<>>
            THEN /\ toast' = "Nome da apresentacao e obrigatorio"
                 /\ listEvent' = [kind |-> "invalid_title", id |-> pid, input |-> input,
                                  title |-> <<>>]
                 /\ pending' = pending
            ELSE /\ toast' = toast
                 /\ listEvent' = [kind |-> "settings", id |-> pid, input |-> input,
                                  title |-> Trim(input)]
                 /\ pending' = Append(pending,
                                      Mutation("settings", pid, Trim(input), session, "request"))
  /\ UNCHANGED <<storeVars, session, isAuthOpen, exceptList>>

\* EditableTitle.handleSave, then handleUpdateTitle
HandleUpdateTitle ==
  /\ ops < MaxGestures
  /\ ops' = ops + 1
  /\ Len(pending) < MaxInFlight
  /\ ~IsPending("title")
  /\ \E pid \in DOMAIN presentations, input \in TitleInputs :
       /\ Listed(pid)
       /\ Trim(input) # <<>>
       /\ input # presentations[pid].title
       /\ IF NoSession(session)
            THEN /\ toast' = "Faca login para editar"
                 /\ isAuthOpen' = TRUE
                 /\ listEvent' = [kind |-> "no_session", id |-> pid, input |-> input,
                                  title |-> Trim(input)]
                 /\ pending' = pending
            ELSE /\ toast' = toast
                 /\ isAuthOpen' = isAuthOpen
                 /\ listEvent' = [kind |-> "title", id |-> pid, input |-> input,
                                  title |-> Trim(input)]
                 /\ pending' = Append(pending,
                                      Mutation("title", pid, Trim(input), session, "request"))
  /\ UNCHANGED <<storeVars, session, exceptList>>

\* handleDelete, confirmed: deleteMutation.mutate(id)
HandleDelete ==
  /\ ops < MaxGestures
  /\ ops' = ops + 1
  /\ Len(pending) < MaxInFlight
  /\ \E pid \in PresIds :
       /\ Listed(pid)
       /\ IF NoSession(session)
            THEN /\ toast' = "Faca login para deletar"
                 /\ isAuthOpen' = TRUE
                 /\ listEvent' = [kind |-> "no_session", id |-> pid, input |-> <<>>,
                                  title |-> <<>>]
                 /\ pending' = pending
            ELSE /\ toast' = toast
                 /\ isAuthOpen' = isAuthOpen
                 /\ listEvent' = [kind |-> "delete", id |-> pid, input |-> <<>>,
                                  title |-> <<>>]
                 /\ pending' = Append(pending, Mutation("delete", pid, <<>>, session, "items"))
  /\ UNCHANGED <<storeVars, session, exceptList>>

\* createMutation: the insert is answered, then onSuccess or onError
CreateAnswered ==
  /\ \E m \in 1..Len(pending) :
       /\ pending[m].kind = "create"
       /\ \/ \E pid \in PresIds \ DOMAIN presentations, pub \in BOOLEAN :
               DbInsertPresentation(session, pid,
                                    [user_id |-> pending[m].uid, is_public |-> pub,
                                     title |-> pending[m].title])
          \/ RequestFails("insert_presentation", session, {})
       /\ pending' = RemoveAt(pending, m)
       /\ listEvent' = [kind |-> IF resp'.error THEN "create_error" ELSE "create_ok",
                        id |-> "", input |-> <<>>, title |-> pending[m].title]
  /\ toast' = IF resp'.error THEN "Erro ao criar apresentacao"
              ELSE "Apresentacao criada com sucesso!"
  /\ UNCHANGED <<session, ops, isAuthOpen, exceptList>>

\* updateTitleMutation / updateSettingsMutation: the update ... .select().single()
\* is answered (no row returned is an error), then onSuccess or onError
UpdateAnswered ==
  /\ \E m \in 1..Len(pending) :
       LET failed == resp'.error \/ resp'.count = 0
       IN  /\ pending[m].kind \in {"title", "settings"}
           /\ \/ DbPatchPresentation(session, pending[m].id, [title |-> pending[m].title])
              \/ RequestFails("update_presentation", session, {pending[m].id})
           /\ pending' = RemoveAt(pending, m)
           /\ listEvent' = [kind |-> IF failed THEN "update_error" ELSE "update_ok",
                            id |-> pending[m].id, input |-> <<>>,
                            title |-> pending[m].title]
           /\ toast' = IF pending[m].kind = "title"
                         THEN IF failed THEN "Erro ao atualizar titulo"
                              ELSE "Titulo atualizado com sucesso!"
                         ELSE IF failed THEN "Erro ao atualizar apresentacao"
                              ELSE "Apresentacao atualizada com sucesso!"
  /\ UNCHANGED <<session, ops, isAuthOpen, exceptList>>

\* deleteMutation, first request: delete the items; its result is not looked at
DeleteItemsAnswered ==
  /\ \E m \in 1..Len(pending) :
       /\ pending[m].kind = "delete" /\ pending[m].step = "items"
       /\ \/ DbDeleteItemsOf(session, pending[m].id)
          \/ RequestFails("delete_items", session, {pending[m].id})
       /\ pending' = [pending EXCEPT ![m].step = "presentation"]
       /\ listEvent' = [kind |-> IF resp'.error THEN "delete_items_error"
                                 ELSE "delete_items_ok",
                        id |-> pending[m].id, input |-> <<>>, title |-> <<>>]
  /\ UNCHANGED <<session, toast, ops, isAuthOpen, exceptList>>

\* deleteMutation, second request: delete the presentation, then onSuccess or onError
DeletePresentationAnswered ==
  /\ \E m \in 1..Len(pending) :
       /\ pending[m].kind = "delete" /\ pending[m].step = "presentation"
       /\ \/ /\ pending[m].id \in DOMAIN presentations
             /\ DbDeletePresentation(session, pending[m].id)
          \/ /\ pending[m].id \notin DOMAIN presentations
             /\ resp' = Resp("delete_presentation", session, {pending[m].id}, FALSE, 0, {})
             /\ UNCHANGED <<presentations, items>>
          \/ RequestFails("delete_presentation", session, {pending[m].id})
       /\ pending' = RemoveAt(pending, m)
       /\ listEvent' = [kind |-> IF resp'.error THEN "delete_error" ELSE "delete_ok",
                        id |-> pending[m].id, input |-> <<>>, title |-> <<>>]
  /\ toast' = IF resp'.error THEN "Erro ao deletar apresentacao"
              ELSE "Apresentacao deletada com sucesso!"
  /\ UNCHANGED <<session, ops, isAuthOpen, exceptList>>

\* the edit form open in another tab adds an item (addItemMutation); the new
\* row gets the first unused id
OtherTabAddsItem ==
  /\ ops < MaxGestures
  /\ ops' = ops + 1
  /\ \E uid \in Users, id \in ItemIds \ DOMAIN items, pid \in PresIds :
       /\ \A j \in ItemIds \ DOMAIN items : id <= j
       /\ DbInsertItem(uid, id, [presentation_id |-> pid, type |-> "image", url |-> NoUrl,
                                 display_time |-> 1, order_index |-> 0])
  /\ listEvent' = [NoRequest EXCEPT !.kind = "other_tab"]
  /\ UNCHANGED <<session, pending, toast, isAuthOpen, exceptList>>

\* AuthDialog onOpenChange(false) (dismissed), or onAuthSuccess
CloseAuthDialog ==
  /\ ops < MaxGestures
  /\ ops' = ops + 1
  /\ isAuthOpen
  /\ isAuthOpen' = FALSE
  /\ \E success \in BOOLEAN :
       /\ toast' = IF success THEN "Login realizado" ELSE toast
       /\ listEvent' = [NoRequest EXCEPT !.kind = IF success THEN "auth_success"
                                                  ELSE "auth_dismissed"]
  /\ UNCHANGED <<storeVars, session, pending, exceptList>>

ListNext ==
  \/ CloseAuthDialog
  \/ AuthStateChange
  \/ SubmitCreate
  \/ SubmitSettings
  \/ HandleUpdateTitle
  \/ HandleDelete
  \/ CreateAnswered
  \/ UpdateAnswered
  \/ DeleteItemsAnswered
  \/ DeletePresentationAnswered
  \/ OtherTabAddsItem

ListSpec == ListInit /\ [][ListNext]_vars

\* ------------------------------------------------- claims: presentation list
\* the destructive toasts of the presentation list's mutations
ErrorToasts ==
  {"Erro ao criar apresentacao", "Erro ao atualizar titulo",
   "Erro ao atualizar apresentacao", "Erro ao deletar apresentacao"}

\* C15: a step in which a request of the presentation list is answered with an
\* error (create, rename, settings, either request of a delete) leaves an
\* error toast on screen.
C15_ErrorsSurfaceAsToasts ==
  [][(pending' # pending
        /\ listEvent'.kind \in {"create_error", "update_error",
                                "delete_items_error", "delete_error"})
       => toast' \in ErrorToasts]_vars

\* C11: no item refers to a presentation that is not stored, and the step in
\* which the owner's delete removes a presentation leaves no item of it.
C11_DeleteCascades ==
  /\ [](\A i \in DOMAIN items : items[i].presentation_id \in DOMAIN presentations)
  /\ [][(resp'.op = "delete_presentation" /\ resp'.count = 1)
          => /\ \A pid \in resp'.press : pid \notin DOMAIN presentations'
             /\ \A i \in DOMAIN items' : items'[i].presentation_id \notin resp'.press]_vars

C11_Witness ==
  /\ listEvent.kind = "delete_ok"
  /\ resp.op = "delete_presentation" /\ resp.count = 1 /\ resp.rows # {}
  /\ listEvent.id \notin DOMAIN presentations
  /\ items = Drop(items, DOMAIN items)

Blank(t) == \A k \in 1..Len(t) : t[k] = " "

\* t is input without its leading and trailing white space
Stripped(input, t) ==
  /\ t # <<>> /\ t[1] # " " /\ t[Len(t)] # " "
  /\ \E i \in 1..Len(input) :
       /\ i + Len(t) - 1 <= Len(input)
       /\ t = SubSeq(input, i, i + Len(t) - 1)
       /\ Blank(SubSeq(input, 1, i - 1))
       /\ Blank(SubSeq(input, i + Len(t), Len(input)))

FormSubmitted ==
  /\ ops' = ops + 1
  /\ listEvent'.kind \in {"invalid_title", "create", "create_no_session", "settings"}

\* C13: a submit of the form with a blank title shows the error, starts no
\* mutation and sends nothing to the store; a submit that calls onSubmit
\* carries the input without its surrounding white space, and it is not empty.
C13_BlankTitleBlocked ==
  /\ [][FormSubmitted =>
          /\ Blank(listEvent'.input) =>
               /\ listEvent'.kind = "invalid_title"
               /\ toast' = "Nome da apresentacao e obrigatorio"
               /\ pending' = pending
               /\ storeVars' = storeVars
          /\ listEvent'.kind # "invalid_title" =>
               /\ Stripped(listEvent'.input, listEvent'.title)
               /\ listEvent'.kind # "create_no_session" =>
                    /\ Len(pending') = Len(pending) + 1
                    /\ pending'[Len(pending')].title = listEvent'.title]_vars
  /\ [][\A pid \in DOMAIN presentations' :
          (pid \notin DOMAIN presentations \/ presentations'[pid].title # presentations[pid].title)
            => Stripped(presentations'[pid].title, presentations'[pid].title)]_vars

C13_Witness ==
  /\ listEvent.kind = "invalid_title"
  /\ Len(listEvent.input) >= 2
  /\ toast = "Nome da apresentacao e obrigatorio"
  /\ resp.op = "insert_presentation" /\ resp.count = 1
  /\ \E pid \in DOMAIN presentations : Len(presentations[pid].title) = 1
                                         /\ presentations[pid].user_id = "u2"

\* a step of handleCreatePresentation, handleUpdateTitle or handleDelete
HandlerStep ==
  /\ ops' = ops + 1
  /\ listEvent'.kind \in {"create", "create_no_session", "title", "delete", "no_session"}

\* C27: without a session the three handlers send nothing to the store, add no
\* mutation and open the auth dialog; a create mutation that is started carries
\* the id of the user of the session the component holds.
C27_NoSessionNoMutation ==
  [][/\ (session = NULL /\ HandlerStep) =>
          /\ pending' = pending
          /\ UNCHANGED storeVars
          /\ isAuthOpen'
     /\ (Len(pending') > Len(pending) /\ pending'[Len(pending')].kind = "create") =>
          /\ session # NULL
          /\ pending'[Len(pending')].uid = session]_vars

C27_Witness ==
  /\ session = NULL
  /\ listEvent.kind \in {"create_no_session", "no_session"}
  /\ isAuthOpen
  /\ pending = <<>>

\* a delete of presentation pid is still under way
DeletePending(pid) ==
  \E k \in 1..Len(pending) : pending[k].kind = "delete" /\ pending[k].id = pid

\* C28: a delete that fails leaves the items alone: an item is missing from the
\* store only if its presentation is gone too (or a delete of it is still under
\* way), and a failed item-deletion request ends the delete instead of letting
\* it go on to report the presentation as deleted.
C28_FailedDeleteKeepsItems ==
  /\ \A i \in ItemIds, pid \in PresIds :
       []((i \in DOMAIN items /\ items[i].presentation_id = pid) =>
            []((pid \in DOMAIN presentations /\ ~DeletePending(pid)) => i \in DOMAIN items))
  /\ [][listEvent'.kind = "delete_items_error" => Len(pending') < Len(pending)]_vars

\* ============================================================= session effect
\* useEffect(() => { onAuthStateChange(cb); getSession().then(cb'); ... }, [])
\* of PresentationManager and of App
MaxAuthChanges == 3

\* after the first render: the effect has subscribed and called getSession()
SessionInit ==
  /\ StoreIdle
  /\ PlayerIdle
  /\ TabsIdle
  /\ ManagerIdle
  /\ UploadIdle
  /\ session = NULL
  /\ pending = <<>>
  /\ listEvent = NoRequest
  /\ isAuthOpen = FALSE
  /\ authSession \in Uids
  /\ getSessionCall = [state |-> "called", value |-> NULL]
  /\ authEvents = <<>>
  /\ authChanges = 0

\* sign-in, sign-out or another user's sign-in (in this tab or another one):
\* the auth client has a new session and notifies its subscribers
AuthChange ==
  /\ authChanges < MaxAuthChanges
  /\ authChanges' = authChanges + 1
  /\ \E s \in Uids :
       /\ s # authSession
       /\ authSession' = s
       /\ authEvents' = Append(authEvents, s)
  /\ UNCHANGED <<session, getSessionCall, exceptAuth>>

\* getSession() reads the session the auth client holds
GetSessionReads ==
  /\ getSessionCall.state = "called"
  /\ getSessionCall' = [state |-> "resolved", value |-> authSession]
  /\ UNCHANGED <<session, authSession, authEvents, authChanges, exceptAuth>>

\* .then(({ data }) => setSession(data.session))
GetSessionThen ==
  /\ getSessionCall.state = "resolved"
  /\ getSessionCall' = [getSessionCall EXCEPT !.state = "delivered"]
  /\ session' = getSessionCall.value
  /\ UNCHANGED <<authSession, authEvents, authChanges, exceptAuth>>

\* (_event, session) => setSession(session)
OnAuthStateChange ==
  /\ authEvents # <<>>
  /\ session' = Head(authEvents)
  /\ authEvents' = Tail(authEvents)
  /\ UNCHANGED <<authSession, getSessionCall, authChanges, exceptAuth>>

SessionNext ==
  \/ AuthChange
  \/ GetSessionReads
  \/ GetSessionThen
  \/ OnAuthStateChange

SessionSpec == SessionInit /\ [][SessionNext]_vars

\* C26: once the getSession result and every auth-state-change event have been
\* handed to the component, its session state is the auth client's session: a
\* getSession result that arrives after a later event has not put an older
\* session back.
C26_SessionConverges ==
  (authEvents = <<>> /\ getSessionCall.state = "delivered") => session = authSession

====
